---------------------------- MODULE Spec2Model ----------------------------
(***************************************************************************)
(* Model of server/services/g4f_client.py: the command-line completion     *)
(* adapter.  One invocation of main() reads stdin, parses it, extracts the *)
(* request fields, reshapes the messages, calls the provider once, shapes  *)
(* the result and prints one document; every Exception is funnelled into   *)
(* the error document and exit status 1.                                   *)
(*                                                                         *)
(* The content returned by the provider is a sequence of code points; an   *)
(* error text is a sequence of pieces, a piece being a TLA+ string of one  *)
(* or more characters.  JSON values are tagged records.  The provider      *)
(* (g4f) is opaque: its behaviour is an input of the run; its failures are *)
(* Exceptions, the kind main's handler catches.  Standard output is a      *)
(* stream in front of a device that takes a prefix of what is written to   *)
(* it; the documents of the model fit in the stream's buffer.  Error texts *)
(* are those of CPython 3.11.                                              *)
(***************************************************************************)
EXTENDS Integers, Sequences, FiniteSets, TLC

(***************************************************************************)
(* Bounds of the model.                                                    *)
(***************************************************************************)
MaxMsgs == 2      \* longest messages list on stdin
MaxLen == 3       \* longest free-form provider content (characters)
MaxWords == 10    \* longest provider content of the form "a a ... a" (words)

(***************************************************************************)
(* JSON values as Python sees them after json.loads.                       *)
(***************************************************************************)
JStr(s) == [t |-> "str", v |-> s, items |-> <<>>]
JInt(s) == [t |-> "int", v |-> s, items |-> <<>>]
JFloat(s) == [t |-> "float", v |-> s, items |-> <<>>]
JList(xs) == [t |-> "list", v |-> "", items |-> xs]
JDict(f) == [t |-> "dict", v |-> "", items |-> <<>>, fields |-> f]
None == [t |-> "NoneType", v |-> "", items |-> <<>>]

\* The literal NaN: not JSON (RFC 8259), but json.loads accepts it.
NaN == JFloat("NaN")

DefaultModel == JStr("gpt-4o-mini")
DefaultTemperature == JFloat("0.7")
DefaultMaxTokens == JInt("2000")
ProviderLabel == "g4f"
ZeroCost == "0.0"

(***************************************************************************)
(* Text helpers.                                                           *)
(***************************************************************************)
Contains(e, m) == \E i \in 1..(Len(e) - Len(m) + 1) : SubSeq(e, i, i + Len(m) - 1) = m

\* The code points str.split() splits on (str.isspace).
Whitespace ==
  (9..13) \cup (28..32) \cup {133, 160, 5760} \cup (8192..8202)
  \cup {8232, 8233, 8239, 8287, 12288}

\* The bytes bytes.split() splits on.
BytesWhitespace == (9..13) \cup {32}

\* The separators of content.split() for a content of the given type.
SplitWhitespace(kind) == IF kind = "bytes" THEN BytesWhitespace ELSE Whitespace

\* len(content.split()): the number of maximal runs of non-whitespace.
RECURSIVE WordCountFrom(_, _, _, _)
WordCountFrom(s, i, inWord, ws) ==
  IF i > Len(s) THEN 0
  ELSE IF s[i] \in ws THEN WordCountFrom(s, i + 1, FALSE, ws)
  ELSE (IF inWord THEN 0 ELSE 1) + WordCountFrom(s, i + 1, TRUE, ws)

WordCount(s, ws) == WordCountFrom(s, 1, FALSE, ws)

(***************************************************************************)
(* n * 1.3 in IEEE-754 binary64 and int() of it.  The double nearest 1.3   *)
(* is Mant13 / 2^52 with Mant13 = 5854679515581645 (0x1.4cccccccccccdp+0), *)
(* held here in three limbs of 18 bits, least significant first.  The      *)
(* exact product is rounded to 53 significant bits, ties to even, and      *)
(* int() drops the fraction.                                               *)
(***************************************************************************)
LimbBase == 2^18
Mant13 == <<52429, 209715, 85196>>

RECURSIVE BitLen(_)
BitLen(x) == IF x = 0 THEN 0 ELSE 1 + BitLen(x \div 2)

\* Exact product n * Mant13 as four limbs.
MulLimbs(n) ==
  LET p0 == n * Mant13[1]
      p1 == n * Mant13[2] + (p0 \div LimbBase)
      p2 == n * Mant13[3] + (p1 \div LimbBase)
  IN  <<p0 % LimbBase, p1 % LimbBase, p2 % LimbBase, p2 \div LimbBase>>

\* Bits of the product beyond the 53 a double keeps.
ExcessBits(l) ==
  LET len == IF l[4] > 0 THEN 54 + BitLen(l[4])
             ELSE IF l[3] > 0 THEN 36 + BitLen(l[3])
             ELSE IF l[2] > 0 THEN 18 + BitLen(l[2]) ELSE BitLen(l[1])
  IN  IF len > 53 THEN len - 53 ELSE 0

\* Round to nearest, ties to even, at 53 significant bits.
RoundLimbs(l) ==
  LET s == ExcessBits(l)
      q == 2^s
      r == l[1] % q
      kept == l[1] - r
      up == (2 * r > q) \/ (2 * r = q /\ (l[1] \div q) % 2 = 1)
      a0 == IF up THEN kept + q ELSE kept
      a1 == l[2] + (a0 \div LimbBase)
      a2 == l[3] + (a1 \div LimbBase)
  IN  <<a0 % LimbBase, a1 % LimbBase, a2 % LimbBase, l[4] + (a2 \div LimbBase)>>

\* len(content.split()) * 1.3, as the limbs of (double value * 2^52).
FloatMul13(n) == RoundLimbs(MulLimbs(n))

\* Variant: round(tokens), the nearest integer, instead of int(tokens).
IntOfFloatRounded(l) == l[4] * 4 + ((l[3] + 2^15) \div 2^16)

\* int(tokens): the integer part, for a non-negative double.
IntOfFloat(l) == l[4] * 4 + (l[3] \div 2^16)

EstimateTokens(content, ws) == IntOfFloat(FloatMul13(WordCount(content, ws)))

(***************************************************************************)
(* The error texts Python produces, as one piece each.                     *)
(***************************************************************************)
FailurePrefix == "G4F completion failed: "

\* Variant: the wrapper drops the cause: Exception("G4F completion failed").
WrapGeneric(text) == <<"G4F completion failed">>

\* chat_completion's except clause: Exception(f"G4F completion failed: {str(e)}")
Wrap(text) == <<FailurePrefix>> \o text

NoGetText(type) == <<"'" \o type \o "' object has no attribute 'get'">>
NotIterableText(type) == <<"'" \o type \o "' object is not iterable">>
NotSubscriptableText(type) == <<"'" \o type \o "' object is not subscriptable">>
StringIndexText == <<"string indices must be integers, not 'str'">>
ListIndexText == <<"list indices must be integers or slices, not str">>
KeyErrorText(key) == <<"'" \o key \o "'">>
IndexErrorText == <<"list index out of range">>
NoSplitText == <<"'NoneType' object has no attribute 'split'">>
NotSerializableText == <<"Object of type bytes is not JSON serializable">>
WriteErrorText == <<"[Errno 28] No space left on device">>

(***************************************************************************)
(* Standard input.  A stdin is either a literal text or, for a text that   *)
(* spells an object, the object itself: a function from the keys present   *)
(* to their values.                                                        *)
(***************************************************************************)
Text(kind, text) == [kind |-> kind, text |-> text, obj |-> <<>>]
Object(obj) == [kind |-> "object", text |-> "", obj |-> obj]

NonObjectStdins ==
  { Text("empty", ""), Text("truncated", "{\"messages\":"), Text("garbage", "hello"),
    Text("list", "[1,2]"), Text("int", "3"), Text("str", "\"s\""), Text("null", "null") }

\* Elements of a messages list: four objects and a string.
MsgPool ==
  { JDict([role |-> "user", content |-> "hi", name |-> "x"]),
    JDict([role |-> "assistant", content |-> "yo"]),
    JDict([role |-> "user"]),
    JDict([content |-> "hi"]),
    JStr("hi") }

MsgSeqs == UNION { [1..n -> MsgPool] : n \in 0..MaxMsgs }

\* Values of messages that are not lists.
OddMessages == { JInt("5"), JStr(""), JStr("ab"), JDict(<<>>), JDict([role |-> "user"]) }

\* Each choice is <<>> (key omitted) or <<value>>.
MessagesChoices == {<<>>} \cup { <<m>> : m \in OddMessages } \cup { <<JList(s)>> : s \in MsgSeqs }
ModelChoices == {<<>>, <<DefaultModel>>, <<JStr("gpt-4")>>}
\* The choices of temperature and max_tokens, in pairs.
TuningChoices ==
  { <<<<>>, <<>>>>,
    <<<<DefaultTemperature>>, <<DefaultMaxTokens>>>>,
    <<<<DefaultTemperature>>, <<JInt("100")>>>>,
    <<<<>>, <<JInt("100")>>>>,
    <<<<NaN>>, <<DefaultMaxTokens>>>>,
    <<<<JStr("hot")>>, <<JInt("100")>>>> }

MkObj(ms, mo, te, mt) ==
  LET dom == (IF ms # <<>> THEN {"messages"} ELSE {})
             \cup (IF mo # <<>> THEN {"model"} ELSE {})
             \cup (IF te # <<>> THEN {"temperature"} ELSE {})
             \cup (IF mt # <<>> THEN {"max_tokens"} ELSE {})
  IN  [k \in dom |-> CASE k = "messages" -> ms[1]
                       [] k = "model" -> mo[1]
                       [] k = "temperature" -> te[1]
                       [] k = "max_tokens" -> mt[1]]

ObjectStdins ==
  { Object(MkObj(ms, mo, tu[1], tu[2])) :
      ms \in MessagesChoices, mo \in ModelChoices, tu \in TuningChoices }

Stdins == NonObjectStdins \cup ObjectStdins

\* A few stdins for the runs that explore the provider's contents and the device.
FewStdins ==
  NonObjectStdins \cup
  { Object(MkObj(ms, <<>>, <<>>, <<>>)) :
      ms \in {<<>>, <<JInt("5")>>, <<JStr("")>>,
              <<JList(<<JDict([role |-> "user", content |-> "hi", name |-> "x"])>>)>>,
              <<JList(<<JDict([role |-> "user"])>>)>>} }

\* The choice a key has in an object.
ChoiceOf(obj, key) == IF key \in DOMAIN obj THEN <<obj[key]>> ELSE <<>>

\* RFC 8259: is the stdin a well-formed JSON object?
WellFormedObject(s) ==
  /\ s.kind = "object"
  /\ \A k \in DOMAIN s.obj : s.obj[k] # NaN

\* json.loads(input_data): the value, or the JSONDecodeError's text.
json_loads(s) ==
  CASE s.kind = "empty" ->
         [ok |-> FALSE, err |-> <<"Expecting value: line 1 column 1 (char 0)">>, type |-> "", obj |-> <<>>]
    [] s.kind = "truncated" ->
         [ok |-> FALSE, err |-> <<"Expecting value: line 1 column 13 (char 12)">>, type |-> "", obj |-> <<>>]
    [] s.kind = "garbage" ->
         [ok |-> FALSE, err |-> <<"Expecting value: line 1 column 1 (char 0)">>, type |-> "", obj |-> <<>>]
    [] s.kind = "null" -> [ok |-> TRUE, err |-> <<>>, type |-> "NoneType", obj |-> <<>>]
    [] s.kind \in {"list", "int", "str"} -> [ok |-> TRUE, err |-> <<>>, type |-> s.kind, obj |-> <<>>]
    [] s.kind = "object" -> [ok |-> TRUE, err |-> <<>>, type |-> "dict", obj |-> s.obj]

\* Variant: data.get(key), which ignores the default.
GetNoDefault(obj, key, default) == IF key \in DOMAIN obj THEN obj[key] ELSE None

\* data.get(key, default)
Get(obj, key, default) == IF key \in DOMAIN obj THEN obj[key] ELSE default

(***************************************************************************)
(* The provider: what g4f does in this run.  "noclient": Client() raises;  *)
(* "raise": create raises; "nochoice": the response has no choice; "none", *)
(* "bytes", "str": the type of the first choice's message content.         *)
(***************************************************************************)
ProviderMessages == { <<"b", "o", "o", "m">>, <<"t", "i", "m", "e", "d", " ", "o", "u", "t">> }

\* a, space, carriage return, U+001C (file separator), U+200B (zero width space)
Alphabet == {97, 32, 13, 28, 8203}
FreeContents == UNION { [1..n -> Alphabet] : n \in 0..MaxLen }

\* "a a ... a": k words.
WordRun(k) == [i \in 1..(IF k = 0 THEN 0 ELSE 2 * k - 1) |-> IF i % 2 = 1 THEN 97 ELSE 32]
WordRuns == { WordRun(k) : k \in 0..MaxWords }

Contents == FreeContents \cup WordRuns
FewContents == { <<>>, <<13, 97>>, WordRun(4) }

Behaviour(kind, msg, content) == [kind |-> kind, msg |-> msg, content |-> content]

ProvidersOver(contents) ==
  { Behaviour("raise", m, <<>>) : m \in ProviderMessages }
  \cup { Behaviour("noclient", <<"n", "o", " ", "p", "r", "o", "v", "i", "d", "e", "r", "s">>, <<>>),
         Behaviour("nochoice", <<>>, <<>>), Behaviour("none", <<>>, <<>>),
         Behaviour("bytes", <<>>, <<97, 28, 98>>) }
  \cup { Behaviour("str", <<>>, c) : c \in contents }

(***************************************************************************)
(* Standard output.  What is written is a sequence of items: a document,   *)
(* the newline print adds after it, or the beginning of a document.  The   *)
(* device behind the stream takes a prefix of it: room is what it still    *)
(* takes, a newline counting 1 and a document 2 (so that room 1 is room    *)
(* for a part of a document only).  A stream is "buffered" (the default    *)
(* for a file or a pipe: the text stays in the buffer until the            *)
(* interpreter exits), "unbuffered" (python -u, PYTHONUNBUFFERED: every    *)
(* write goes to the device) or "closed" (file descriptor 1 is closed:     *)
(* sys.stdout is None and print does nothing).                             *)
(***************************************************************************)
Newline == [nl |-> TRUE]
Partial(doc) == [part |-> doc]

Size(item) == IF item = Newline THEN 1 ELSE 2

\* Room for everything a run writes.
Unlimited == 2^20
\* Room for one print: a document and its newline.
OnePrint == 2 + 1

Streams == {"buffered", "unbuffered", "closed"}

\* One write(2) of an item on a device with room rm after out.
DeviceWrite(out, rm, item) ==
  IF Size(item) <= rm
  THEN [out |-> Append(out, item), room |-> rm - Size(item), ok |-> TRUE]
  ELSE [out |-> IF rm > 0 THEN Append(out, Partial(item)) ELSE out, room |-> 0, ok |-> FALSE]

\* print(text): sys.stdout.write(text), then sys.stdout.write("\n").
\* st = [out, buf, room]; raised: print raised OSError.
PyPrint(strm, st, doc) ==
  CASE strm = "closed" -> [out |-> st.out, buf |-> st.buf, room |-> st.room, raised |-> FALSE]
    [] strm = "buffered" ->
         [out |-> st.out, buf |-> st.buf \o <<doc, Newline>>, room |-> st.room, raised |-> FALSE]
    [] strm = "unbuffered" ->
         LET w1 == DeviceWrite(st.out, st.room, doc)
             w2 == DeviceWrite(w1.out, w1.room, Newline)
         IN  IF w1.ok
             THEN [out |-> w2.out, buf |-> st.buf, room |-> w2.room, raised |-> ~w2.ok]
             ELSE [out |-> w1.out, buf |-> st.buf, room |-> w1.room, raised |-> TRUE]

\* The flush of the buffer at interpreter exit: it stops at the first failed write.
RECURSIVE Flush(_, _, _)
Flush(out, buf, rm) ==
  IF buf = <<>> THEN [out |-> out, room |-> rm, ok |-> TRUE]
  ELSE LET w == DeviceWrite(out, rm, Head(buf))
       IN  IF w.ok THEN Flush(w.out, Tail(buf), w.room)
           ELSE [out |-> w.out, room |-> w.room, ok |-> FALSE]

(***************************************************************************)
(* The pieces of chat_completion and main.                                 *)
(***************************************************************************)
\* The characters of a string, as values.
Chars(s) == [i \in 1..Len(s) |-> JStr(SubSeq(s, i, i))]

\* The keys of a dictionary, as values.  (Python yields them in insertion
\* order; the loop fails on the first whatever it is.)
RECURSIVE Keys(_)
Keys(ks) == IF ks = {} THEN <<>> ELSE LET k == CHOOSE x \in ks : TRUE IN <<JStr(k)>> \o Keys(ks \ {k})

\* for msg in messages: can messages be iterated?
Iterable(value) == value.t \in {"list", "str", "dict"}

\* ... and what the iteration yields.
Elements(value) ==
  CASE value.t = "list" -> value.items
    [] value.t = "str" -> Chars(value.v)
    [] value.t = "dict" -> Keys(DOMAIN value.fields)

\* str(e) of the exception msg[key] raises (<<>> when it raises none).
SubscriptError(msg, key) ==
  CASE msg.t = "dict" -> IF key \in DOMAIN msg.fields THEN <<>> ELSE KeyErrorText(key)
    [] msg.t = "str" -> StringIndexText
    [] msg.t = "list" -> ListIndexText
    [] OTHER -> NotSubscriptableText(msg.t)

\* str(e) of the exception the dictionary display of lines 24-27 raises:
\* msg["role"] is evaluated before msg["content"].
MessageError(msg) ==
  IF SubscriptError(msg, "role") # <<>> THEN SubscriptError(msg, "role")
  ELSE SubscriptError(msg, "content")

\* Variant: the message is passed on as received.
FormatMessageAsIs(msg) == msg.fields

\* {"role": msg["role"], "content": msg["content"]}
FormatMessage(msg) == [role |-> msg.fields.role, content |-> msg.fields.content]

\* The first message the loop fails on (0 when it completes).
RECURSIVE FirstBadFrom(_, _)
FirstBadFrom(ms, i) ==
  IF i > Len(ms) THEN 0
  ELSE IF MessageError(ms[i]) # <<>> THEN i ELSE FirstBadFrom(ms, i + 1)

FirstBad(ms) == FirstBadFrom(ms, 1)

\* formatted_messages after the loop has appended every message of ms.
FormatMessages(ms) == [i \in 1..Len(ms) |-> FormatMessage(ms[i])]

\* Variant: the tuning parameters are forwarded to the provider.
CreateArgsForwarding(mo, formatted, te, mt) ==
  [model |-> mo, messages |-> formatted, stream |-> FALSE, temperature |-> te, max_tokens |-> mt]

\* The keyword arguments of client.chat.completions.create.
CreateArgs(mo, formatted, te, mt) == [model |-> mo, messages |-> formatted, stream |-> FALSE]

\* Variant: the result also carries the model's name.
MkResultWithModel(resp) ==
  [content |-> resp.content,
   tokens |-> EstimateTokens(resp.content, SplitWhitespace(resp.kind)),
   cost |-> ZeroCost, provider |-> ProviderLabel, model |-> "gpt-4o-mini"]

\* The dictionary chat_completion returns for the response resp.
MkResult(resp) ==
  [content |-> resp.content,
   tokens |-> EstimateTokens(resp.content, SplitWhitespace(resp.kind)),
   cost |-> ZeroCost, provider |-> ProviderLabel]

\* error_result
ErrorResult(text) == [error |-> text, provider |-> ProviderLabel]

\* Variant: sys.exit(2)
ExitFailureTwo == <<2>>

\* sys.exit(1)
ExitFailure == <<1>>
\* main() returning normally
ExitSuccess == <<0>>
\* an exception leaving main(): traceback, status 1
ExitUncaught == <<1>>
\* the flush of stdout failing at interpreter exit
ExitFlushFailed == <<120>>

NoData == [type |-> "", obj |-> <<>>]
NoResponse == Behaviour("unset", <<>>, <<>>)

(***************************************************************************)
(* State.                                                                  *)
(***************************************************************************)
VARIABLES
  stdin,               \* the content of standard input of this invocation
  provider,            \* what the provider does in this invocation
  stream,              \* how sys.stdout is set up
  capacity,            \* what the device behind stdout takes in an invocation
  pc,                  \* position of main()
  data,                \* main: data
  messages,            \* main: messages
  model,               \* main: model
  temperature,         \* main: temperature
  max_tokens,          \* main: max_tokens
  formatted_messages,  \* chat_completion: formatted_messages
  response,            \* chat_completion: response
  result,              \* main: result, <<>> until chat_completion returns
  exc,                 \* str(e) of the exception being handled
  calls,               \* the calls made to client.chat.completions.create
  buffer,              \* the items in sys.stdout's buffer
  stdout,              \* the items the device behind stdout has taken
  room,                \* what the device still takes
  exitStatus,          \* <<>>, or <<the status the process ends with>>
  run,                 \* 1 for the first invocation, 2 for the second
  prev,                \* <<>>, or <<the first invocation's input and outcome>>
  writeFailed          \* a write to stdout has failed in this invocation

env == <<stdin, provider, stream, capacity>>
locals == <<data, messages, model, temperature, max_tokens, formatted_messages, response, result, exc>>
output == <<buffer, stdout, room, exitStatus, writeFailed>>
vars == <<env, pc, locals, calls, output, run, prev>>

Fresh ==
  /\ pc = "read"
  /\ data = NoData
  /\ messages = None
  /\ model = None
  /\ temperature = None
  /\ max_tokens = None
  /\ formatted_messages = <<>>
  /\ response = NoResponse
  /\ result = <<>>
  /\ exc = <<>>
  /\ calls = <<>>
  /\ buffer = <<>>
  /\ stdout = <<>>
  /\ room = capacity
  /\ exitStatus = <<>>
  /\ writeFailed = FALSE
  /\ run = 1
  /\ prev = <<>>

\* Every stdin, a few provider contents, a device that takes everything.
Init ==
  /\ stdin \in Stdins
  /\ provider \in ProvidersOver(FewContents)
  /\ stream \in {"buffered", "unbuffered"}
  /\ capacity = Unlimited
  /\ Fresh

\* A few stdins, every provider content, a device that takes everything.
InitContents ==
  /\ stdin \in FewStdins
  /\ provider \in ProvidersOver(Contents)
  /\ stream \in {"buffered", "unbuffered"}
  /\ capacity = Unlimited
  /\ Fresh

\* A few stdins and contents, every stream, every device.
InitIO ==
  /\ stdin \in FewStdins
  /\ provider \in ProvidersOver(FewContents)
  /\ stream \in Streams
  /\ capacity \in (0..OnePrint) \cup {Unlimited}
  /\ Fresh

\* raise: control passes to main's except clause with str(e) = text.
Raise(text) ==
  /\ exc' = text
  /\ pc' = "except"

(***************************************************************************)
(* main, lines 55-56: read stdin and parse it.                             *)
(***************************************************************************)
ReadParse ==
  /\ pc = "read"
  /\ LET r == json_loads(stdin)
     IN  IF r.ok
         THEN /\ data' = [type |-> r.type, obj |-> r.obj]
              /\ pc' = "extract"
              /\ exc' = exc
         ELSE /\ Raise(r.err)
              /\ data' = data
  /\ UNCHANGED <<env, messages, model, temperature, max_tokens,
                 formatted_messages, response, result, calls, output, run, prev>>

(***************************************************************************)
(* main, lines 58-61: the four data.get with their defaults.               *)
(***************************************************************************)
Extract ==
  /\ pc = "extract"
  /\ IF data.type = "dict"
     THEN /\ messages' = Get(data.obj, "messages", JList(<<>>))
          /\ model' = Get(data.obj, "model", DefaultModel)
          /\ temperature' = Get(data.obj, "temperature", DefaultTemperature)
          /\ max_tokens' = Get(data.obj, "max_tokens", DefaultMaxTokens)
          /\ pc' = "format"
          /\ exc' = exc
     ELSE /\ Raise(NoGetText(data.type))
          /\ UNCHANGED <<messages, model, temperature, max_tokens>>
  /\ UNCHANGED <<env, data, formatted_messages, response, result,
                 calls, output, run, prev>>

(***************************************************************************)
(* chat_completion, lines 19-27: create the client and reshape the         *)
(* messages; a failure is re-raised by lines 48-49.  When the loop fails   *)
(* on a message, the ones before it have been appended.                    *)
(***************************************************************************)
Format ==
  /\ pc = "format"
  /\ IF provider.kind = "noclient"
     THEN /\ Raise(Wrap(provider.msg))
          /\ formatted_messages' = formatted_messages
     ELSE IF ~Iterable(messages)
     THEN /\ Raise(Wrap(NotIterableText(messages.t)))
          /\ formatted_messages' = formatted_messages
     ELSE LET ms == Elements(messages)
              bad == FirstBad(ms)
          IN  IF bad # 0
              THEN /\ Raise(Wrap(MessageError(ms[bad])))
                   /\ formatted_messages' = FormatMessages(SubSeq(ms, 1, bad - 1))
              ELSE /\ formatted_messages' = FormatMessages(ms)
                   /\ pc' = "call"
                   /\ exc' = exc
  /\ UNCHANGED <<env, data, messages, model, temperature, max_tokens,
                 response, result, calls, output, run, prev>>

\* Variant: a failed provider call is tried a second time before giving up.
CallProviderRetrying ==
  /\ pc = "call"
  /\ LET args == CreateArgs(model, formatted_messages, temperature, max_tokens)
     IN  IF provider.kind = "raise"
         THEN /\ calls' = calls \o <<args, args>>
              /\ Raise(Wrap(provider.msg))
              /\ response' = response
         ELSE /\ calls' = Append(calls, args)
              /\ response' = provider
              /\ pc' = "shape"
              /\ exc' = exc
  /\ UNCHANGED <<env, data, messages, model, temperature, max_tokens,
                 formatted_messages, result, output, run, prev>>

(***************************************************************************)
(* chat_completion, lines 30-34: the one provider call.                    *)
(***************************************************************************)
CallProvider ==
  /\ pc = "call"
  /\ calls' = Append(calls, CreateArgs(model, formatted_messages, temperature, max_tokens))
  /\ IF provider.kind = "raise"
     THEN /\ Raise(Wrap(provider.msg))
          /\ response' = response
     ELSE /\ response' = provider
          /\ pc' = "shape"
          /\ exc' = exc
  /\ UNCHANGED <<env, data, messages, model, temperature, max_tokens,
                 formatted_messages, result, output, run, prev>>

(***************************************************************************)
(* chat_completion, lines 36-46: first choice, token estimate, result.     *)
(***************************************************************************)
Shape ==
  /\ pc = "shape"
  /\ IF response.kind = "nochoice"
     THEN /\ Raise(Wrap(IndexErrorText))
          /\ result' = result
     ELSE IF response.kind = "none"
     THEN /\ Raise(Wrap(NoSplitText))
          /\ result' = result
     ELSE /\ result' = MkResult(response)
          /\ pc' = "print"
          /\ exc' = exc
  /\ UNCHANGED <<env, data, messages, model, temperature, max_tokens,
                 formatted_messages, response, calls, output, run, prev>>

(***************************************************************************)
(* main, line 67: print(json.dumps(result)), then the normal return.       *)
(* json.dumps raises TypeError on a bytes content; print raises OSError    *)
(* when a write it makes fails.                                            *)
(***************************************************************************)
PrintResult ==
  /\ pc = "print"
  /\ IF response.kind = "bytes"
     THEN /\ Raise(NotSerializableText)
          /\ UNCHANGED output
     ELSE LET p == PyPrint(stream, [out |-> stdout, buf |-> buffer, room |-> room], result)
          IN  /\ stdout' = p.out
              /\ buffer' = p.buf
              /\ room' = p.room
              /\ writeFailed' = (writeFailed \/ p.raised)
              /\ IF p.raised
                 THEN /\ Raise(WriteErrorText)
                      /\ exitStatus' = exitStatus
                 ELSE /\ exitStatus' = ExitSuccess
                      /\ pc' = "exit"
                      /\ exc' = exc
  /\ UNCHANGED <<env, data, messages, model, temperature, max_tokens,
                 formatted_messages, response, result, calls, run, prev>>

\* Variant: the handler prints the result it holds before the error.
HandleErrorAfterResult ==
  /\ pc = "except"
  /\ LET st == [out |-> stdout, buf |-> buffer, room |-> room]
         p1 == IF result # <<>> THEN PyPrint(stream, st, result)
               ELSE [out |-> stdout, buf |-> buffer, room |-> room, raised |-> FALSE]
         p == PyPrint(stream, [out |-> p1.out, buf |-> p1.buf, room |-> p1.room], ErrorResult(exc))
     IN  /\ stdout' = p.out
         /\ buffer' = p.buf
         /\ room' = p.room
         /\ writeFailed' = (writeFailed \/ p1.raised \/ p.raised)
         /\ exitStatus' = ExitFailure
  /\ pc' = "exit"
  /\ UNCHANGED <<env, locals, calls, run, prev>>

(***************************************************************************)
(* main, lines 69-75: the catch-all handler.  When its print raises, the   *)
(* exception leaves main and sys.exit(1) is not reached.                   *)
(***************************************************************************)
HandleError ==
  /\ pc = "except"
  /\ LET p == PyPrint(stream, [out |-> stdout, buf |-> buffer, room |-> room], ErrorResult(exc))
     IN  /\ stdout' = p.out
         /\ buffer' = p.buf
         /\ room' = p.room
         /\ writeFailed' = (writeFailed \/ p.raised)
         /\ exitStatus' = IF p.raised THEN ExitUncaught ELSE ExitFailure
  /\ pc' = "exit"
  /\ UNCHANGED <<env, locals, calls, run, prev>>

(***************************************************************************)
(* Lines 77-78, after main(): the interpreter exits.  It flushes stdout;   *)
(* when the flush fails, the status is 120 whatever it was.                *)
(***************************************************************************)
Finalize ==
  /\ pc = "exit"
  /\ LET f == Flush(stdout, buffer, room)
     IN  /\ stdout' = f.out
         /\ room' = f.room
         /\ writeFailed' = (writeFailed \/ ~f.ok)
         /\ exitStatus' = IF f.ok THEN exitStatus ELSE ExitFlushFailed
  /\ buffer' = <<>>
  /\ pc' = "done"
  /\ UNCHANGED <<env, locals, calls, run, prev>>

(***************************************************************************)
(* Lines 77-78, a second time: the caller runs the program again, on the   *)
(* same messages, against the same provider behaviour and the same kind of *)
(* stdout.  The new stdin may differ from the first in temperature and     *)
(* max_tokens, and may spell out the default model where the first omitted *)
(* the model.                                                              *)
(***************************************************************************)
Variants(s) ==
  IF s.kind # "object" THEN {}
  ELSE { Object(MkObj(ChoiceOf(s.obj, "messages"), mo, tu[1], tu[2])) :
           mo \in {ChoiceOf(s.obj, "model")}
                  \cup (IF "model" \in DOMAIN s.obj THEN {} ELSE {<<DefaultModel>>}),
           tu \in TuningChoices }

Outcome == [stdin |-> stdin, calls |-> calls, stdout |-> stdout, exitStatus |-> exitStatus]

Reinvoke ==
  /\ pc = "done"
  /\ run = 1
  /\ stdin' \in Variants(stdin)
  /\ prev' = <<Outcome>>
  /\ run' = 2
  /\ UNCHANGED <<provider, stream, capacity>>
  /\ pc' = "read"
  /\ data' = NoData
  /\ messages' = None
  /\ model' = None
  /\ temperature' = None
  /\ max_tokens' = None
  /\ formatted_messages' = <<>>
  /\ response' = NoResponse
  /\ result' = <<>>
  /\ exc' = <<>>
  /\ calls' = <<>>
  /\ buffer' = <<>>
  /\ stdout' = <<>>
  /\ room' = capacity
  /\ exitStatus' = <<>>
  /\ writeFailed' = FALSE

Next ==
  \/ ReadParse
  \/ Extract
  \/ Format
  \/ CallProvider
  \/ Shape
  \/ PrintResult
  \/ HandleError
  \/ Finalize
  \/ Reinvoke

\* Every stdin, a few provider contents, stdout takes every write.
Spec == Init /\ [][Next]_vars

\* A few stdins, every provider content, stdout takes every write.
SpecContents == InitContents /\ [][Next]_vars

\* A few stdins and contents; stdout may be closed or take only a prefix.
SpecIO == InitIO /\ [][Next]_vars

TypeOK ==
  /\ pc \in {"read", "extract", "format", "call", "shape", "print", "except", "exit", "done"}
  /\ run \in {1, 2}
  /\ Len(exitStatus) <= 1
  /\ Len(prev) = run - 1
  /\ room \in 0..capacity
  /\ stream = "unbuffered" => buffer = <<>>

(***************************************************************************)
(* Vocabulary of the properties.                                           *)
(***************************************************************************)
Done == pc = "done"

IsSuccessDoc(d) == DOMAIN d = {"content", "tokens", "cost", "provider"}
IsErrorDoc(d) == DOMAIN d = {"error", "provider"}

\* The complete documents on stdout, in order.
Written == SelectSeq(stdout, LAMBDA item : "provider" \in DOMAIN item)

\* The messages list of an object stdin (<<>> when the key is omitted).
InputMessages(s) == IF "messages" \in DOMAIN s.obj THEN s.obj["messages"].items ELSE <<>>

IsCompleteMessage(m) == m.t = "dict" /\ {"role", "content"} \subseteq DOMAIN m.fields

\* stdin is an object whose messages, if given, are a list.
HasMessageList(s) ==
  /\ s.kind = "object"
  /\ "messages" \in DOMAIN s.obj => s.obj["messages"].t = "list"

\* ... and every message has role and content.
AllMessagesComplete(s) ==
  /\ HasMessageList(s)
  /\ \A i \in 1..Len(InputMessages(s)) : IsCompleteMessage(InputMessages(s)[i])

\* ... or some message is an object without role or without content.
SomeMessageLacksKey(s) ==
  /\ HasMessageList(s)
  /\ \E i \in 1..Len(InputMessages(s)) :
       /\ InputMessages(s)[i].t = "dict"
       /\ ~IsCompleteMessage(InputMessages(s)[i])

\* Number of whitespace-separated words: the positions where a word starts
\* (whitespace being what Python's str.split() takes for it).
Words(s) ==
  Cardinality({ i \in 1..Len(s) : s[i] \notin Whitespace /\ (i = 1 \/ s[i - 1] \in Whitespace) })

Omits(s, key) == s.kind = "object" /\ key \notin DOMAIN s.obj

\* The object a with the omitted optional fields spelled out.
WithDefaults(a) ==
  Object(MkObj(ChoiceOf(a.obj, "messages"),
               IF "model" \in DOMAIN a.obj THEN <<a.obj["model"]>> ELSE <<JStr("gpt-4o-mini")>>,
               IF "temperature" \in DOMAIN a.obj THEN <<a.obj["temperature"]>> ELSE <<JFloat("0.7")>>,
               IF "max_tokens" \in DOMAIN a.obj THEN <<a.obj["max_tokens"]>> ELSE <<JInt("2000")>>))

\* Two object stdins that differ at most in temperature and max_tokens.
SameButTuning(a, b) ==
  /\ a.kind = "object" /\ b.kind = "object"
  /\ ChoiceOf(a.obj, "messages") = ChoiceOf(b.obj, "messages")
  /\ ChoiceOf(a.obj, "model") = ChoiceOf(b.obj, "model")

SameOutcomeAsFirst ==
  /\ calls = prev[1].calls
  /\ stdout = prev[1].stdout
  /\ exitStatus = prev[1].exitStatus

(***************************************************************************)
(* C1 as stated: every run that has ended has written exactly one          *)
(* document to stdout, also when printing the result failed.               *)
(***************************************************************************)
C1_ExactlyOneDocument == Done => Len(Written) = 1

(***************************************************************************)
(* C1, amended: when stdout is open and no write to it has failed, at most *)
(* one document has been written, and exactly one when the run has ended,  *)
(* whatever the outcome (success, parse failure, malformed message,        *)
(* provider failure, malformed response, failure to serialise the result). *)
(***************************************************************************)
C1_OneDocumentWhenWritable ==
  (stream # "closed" /\ ~writeFailed) =>
     /\ Len(Written) <= 1
     /\ Done => stdout = <<Written[1], Newline>>

\* The result could not be serialised, and the run ended with one document.
C1_Witness ==
  /\ Done
  /\ ~writeFailed
  /\ stream = "buffered"
  /\ response.kind = "bytes"
  /\ Written = <<ErrorResult(NotSerializableText)>>

(***************************************************************************)
(* C2 as stated: a run ends with status 0 exactly when the document it     *)
(* wrote has the success shape, with status 1 exactly when it has the      *)
(* error shape, and with no other status.                                  *)
(***************************************************************************)
C2_ExitMatchesDocument ==
  Done =>
     /\ exitStatus \in {<<0>>, <<1>>}
     /\ exitStatus = <<0>> <=> (Len(Written) = 1 /\ IsSuccessDoc(Written[1]))
     /\ exitStatus = <<1>> <=> (Len(Written) = 1 /\ IsErrorDoc(Written[1]))

(***************************************************************************)
(* C2, amended: a run whose stdout is open and has taken every write ends  *)
(* with status 0 exactly when the document it wrote has the success shape, *)
(* with status 1 exactly when it has the error shape, and with no other    *)
(* status.                                                                 *)
(***************************************************************************)
C2_ExitMatchesDocumentWhenWritable ==
  (Done /\ stream # "closed" /\ ~writeFailed) =>
     /\ Len(Written) = 1
     /\ exitStatus \in {<<0>>, <<1>>}
     /\ exitStatus = <<0>> <=> IsSuccessDoc(Written[1])
     /\ exitStatus = <<1>> <=> IsErrorDoc(Written[1])

\* A run that failed after the provider answered: error document, status 1.
C2_Witness ==
  /\ Done
  /\ stream = "unbuffered"
  /\ ~writeFailed
  /\ response.kind = "nochoice"
  /\ Written = <<ErrorResult(Wrap(IndexErrorText))>>
  /\ exitStatus = <<1>>

(***************************************************************************)
(* C3 as stated: for every stdin that is not a well-formed JSON object,    *)
(* the run ends with the error document on stdout and status 1.            *)
(***************************************************************************)
C3_MalformedStdinYieldsError ==
  (Done /\ ~WellFormedObject(stdin)) =>
     /\ Len(Written) = 1
     /\ IsErrorDoc(Written[1])
     /\ Written[1].provider = "g4f"
     /\ exitStatus = <<1>>

(***************************************************************************)
(* C4: when the provider call raises with message m, the run writes the    *)
(* error document, whose text contains m, and ends with status 1.          *)
(***************************************************************************)
C4_ProviderFailureReported ==
  (Done /\ Len(calls) >= 1 /\ provider.kind = "raise") =>
     /\ Len(Written) = 1
     /\ IsErrorDoc(Written[1])
     /\ Written[1].provider = "g4f"
     /\ Contains(Written[1].error, provider.msg)
     /\ exitStatus = <<1>>

\* The provider was called, raised "timed out", and the run has ended.
C4_Witness ==
  /\ Done
  /\ Len(calls) = 1
  /\ provider.kind = "raise"
  /\ provider.msg = <<"t", "i", "m", "e", "d", " ", "o", "u", "t">>
  /\ exitStatus = <<1>>

(***************************************************************************)
(* C5: for a valid object with a non-empty messages list, a run in which   *)
(* the provider returns a text writes a document with exactly the keys     *)
(* content, tokens, cost and provider, cost 0.0, provider "g4f" and the    *)
(* content the provider returned; no document written has both a content   *)
(* and an error key.                                                       *)
(***************************************************************************)
C5_SuccessShape ==
  /\ \A i \in 1..Len(Written) : ~({"content", "error"} \subseteq DOMAIN Written[i])
  /\ (Done /\ AllMessagesComplete(stdin) /\ InputMessages(stdin) # <<>> /\ provider.kind = "str") =>
       /\ Len(Written) = 1
       /\ DOMAIN Written[1] = {"content", "tokens", "cost", "provider"}
       /\ Written[1].cost = "0.0"
       /\ Written[1].provider = "g4f"
       /\ Written[1].content = provider.content

\* A successful run on two messages.
C5_Witness ==
  /\ Done
  /\ AllMessagesComplete(stdin)
  /\ Len(InputMessages(stdin)) = 2
  /\ provider.kind = "str"
  /\ provider.content # <<>>
  /\ IsSuccessDoc(Written[1])

(***************************************************************************)
(* C6: in every success document, tokens is floor(13 n / 10), n being the  *)
(* number of whitespace-separated words of content; it is a natural number *)
(* and it is 0 when content has no word.                                   *)
(***************************************************************************)
C6_TokenEstimate ==
  \A i \in 1..Len(Written) :
    IsSuccessDoc(Written[i]) =>
      /\ Written[i].tokens \in Nat
      /\ Written[i].tokens = (13 * Words(Written[i].content)) \div 10
      /\ Words(Written[i].content) = 0 => Written[i].tokens = 0

\* Ten words make thirteen tokens.
C6_Witness ==
  /\ Done
  /\ Len(Written) = 1
  /\ IsSuccessDoc(Written[1])
  /\ Words(Written[1].content) = 10
  /\ Written[1].tokens = 13

(***************************************************************************)
(* C7: when every input message has role and content, the messages of the  *)
(* provider call are as many as the input's, in the same order, each with  *)
(* exactly the fields role and content and the input's values for them.    *)
(***************************************************************************)
C7_MessagesReshaped ==
  \A c \in 1..Len(calls) :
    AllMessagesComplete(stdin) =>
      /\ Len(calls[c].messages) = Len(InputMessages(stdin))
      /\ \A i \in 1..Len(InputMessages(stdin)) :
           /\ DOMAIN calls[c].messages[i] = {"role", "content"}
           /\ calls[c].messages[i].role = InputMessages(stdin)[i].fields.role
           /\ calls[c].messages[i].content = InputMessages(stdin)[i].fields.content

\* Two different messages, the first with an extra field, reached the provider.
C7_Witness ==
  /\ Len(calls) = 1
  /\ AllMessagesComplete(stdin)
  /\ Len(InputMessages(stdin)) = 2
  /\ "name" \in DOMAIN InputMessages(stdin)[1].fields
  /\ InputMessages(stdin)[1].fields.role # InputMessages(stdin)[2].fields.role

(***************************************************************************)
(* C8: an omitted model, temperature or max_tokens is "gpt-4o-mini", 0.7   *)
(* or 2000 in the run; the provider is called with "gpt-4o-mini" when the  *)
(* model is omitted; and the run on the input with the defaults spelled    *)
(* out makes the same call, writes the same document and ends the same.    *)
(***************************************************************************)
C8_DefaultsApplied ==
  /\ (data.type = "dict" /\ pc \notin {"read", "extract"}) =>
       /\ Omits(stdin, "model") => model = JStr("gpt-4o-mini")
       /\ Omits(stdin, "temperature") => temperature = JFloat("0.7")
       /\ Omits(stdin, "max_tokens") => max_tokens = JInt("2000")
  /\ \A c \in 1..Len(calls) : Omits(stdin, "model") => calls[c].model = JStr("gpt-4o-mini")
  /\ (Done /\ run = 2 /\ stdin = WithDefaults(prev[1].stdin)) => SameOutcomeAsFirst

\* Second run, with the defaults spelled out, of a first run that omitted all three.
C8_Witness ==
  /\ Done
  /\ run = 2
  /\ \A k \in {"model", "temperature", "max_tokens"} : Omits(prev[1].stdin, k)
  /\ stdin = WithDefaults(prev[1].stdin)
  /\ stdin # prev[1].stdin
  /\ exitStatus = <<0>>
  /\ prev[1].exitStatus = <<0>>

(***************************************************************************)
(* C9: two runs whose inputs differ only in temperature and max_tokens     *)
(* make the same provider call (model, messages, stream = false and        *)
(* nothing else), write the same document and end with the same status.    *)
(***************************************************************************)
C9_TuningIgnored ==
  /\ \A c \in 1..Len(calls) :
       /\ DOMAIN calls[c] = {"model", "messages", "stream"}
       /\ calls[c].stream = FALSE
  /\ (Done /\ run = 2 /\ SameButTuning(prev[1].stdin, stdin)) => SameOutcomeAsFirst

\* Second run with a temperature of another type and another max_tokens.
C9_Witness ==
  /\ Done
  /\ run = 2
  /\ SameButTuning(prev[1].stdin, stdin)
  /\ ChoiceOf(prev[1].stdin.obj, "temperature") = <<JFloat("0.7")>>
  /\ ChoiceOf(stdin.obj, "temperature") = <<JStr("hot")>>
  /\ ChoiceOf(prev[1].stdin.obj, "max_tokens") # ChoiceOf(stdin.obj, "max_tokens")
  /\ Len(calls) = 1

(***************************************************************************)
(* C10: the provider is called at most once in a run, also after it failed *)
(* or answered with a malformed response; it is not called at all when     *)
(* stdin does not parse or a message lacks role or content.                *)
(***************************************************************************)
C10_AtMostOneCall ==
  /\ Len(calls) <= 1
  /\ stdin.kind \in {"empty", "truncated", "garbage"} => calls = <<>>
  /\ SomeMessageLacksKey(stdin) => calls = <<>>

\* The provider failed and the run ended after that single call.
C10_Witness ==
  /\ Done
  /\ provider.kind = "raise"
  /\ Len(calls) = 1
  /\ IsErrorDoc(Written[1])
=============================================================================
